---------------------------- MODULE Spec2Model ----------------------------
(***************************************************************************)
(* Model of the real-time voice interaction client:                        *)
(*   - the voice state store (zustand store `useVoiceStore`,               *)
(*     src/frontend/src/stores/authStore.ts lines 286-493), and            *)
(*   - the voice chat hook (`useVoiceChat`, src/unnamed/part_005).         *)
(*                                                                         *)
(* The store is one global object; it outlives the hook.  The hook keeps   *)
(* its own references (websocketRef, mediaRecorderRef, audioChunksRef) and *)
(* registers callbacks on sockets, recorders and timers.  Every callback   *)
(* of the source is one action; JavaScript runs each callback to           *)
(* completion, so an action is atomic, and an `await` splits a function    *)
(* into the actions before and after it.                                   *)
(***************************************************************************)
EXTENDS Naturals, Sequences, FiniteSets

(***************************************************************************)
(* Bounds of the model.                                                    *)
(***************************************************************************)
MaxSockets == 2
MaxLog == 2
MaxResets == 1
MaxAcquire == 2
MaxChunks == 1
MaxAudio == 2
MaxMounts == 1
MaxCalls == 3

(***************************************************************************)
(* JavaScript values.  `undefined` is a sentinel no text of the model      *)
(* equals; an optional object is None or Some(v).                          *)
(***************************************************************************)
Undefined == "undefined"
None == <<>>
Some(v) == <<v>>
IsSome(o) == o # <<>>
Val(o) == o[1]

\* JavaScript truthiness of a string-or-undefined value: if (x) ...
Truthy(s) == s # Undefined /\ s # ""

(***************************************************************************)
(* Inbound wire messages (VoiceResponse).  A frame is the text of one      *)
(* socket message: either text that JSON.parse rejects, or the JSON of a   *)
(* response object.  appointment_action is only logged by the store and is *)
(* left out.                                                               *)
(***************************************************************************)
Errors == {Undefined, "", "speech unintelligible"}
Transcripts == {Undefined, "", "book an appointment"}
Texts == {"", "Sure, with which doctor?"}
Intents == {"", "book_appointment", "cancel_appointment"}
E0 == {}
E1 == {<<"date", "monday">>}
EntitySets == {E0, E1}
Audios == {Undefined, "UklGRg=="}
Timestamps == {"2024-01-01T10:00:00Z"}
Now == "now"

AiResponses ==
  [text : Texts, intent : Intents, extracted_info : {None} \cup {Some(e) : e \in EntitySets}]

Responses ==
  [error : Errors, transcript : Transcripts,
   ai_response : {None} \cup {Some(a) : a \in AiResponses},
   audio_response : Audios, timestamp : Timestamps]

NoResponse ==
  [error |-> Undefined, transcript |-> Undefined, ai_response |-> None,
   audio_response |-> Undefined, timestamp |-> "2024-01-01T10:00:00Z"]

\* Frames of the wire: [json |-> FALSE] is text that does not decode.
Malformed == [json |-> FALSE, body |-> NoResponse]
Frame(r) == [json |-> TRUE, body |-> r]
Frames == {Malformed} \cup {Frame(r) : r \in Responses}

\* The three frames of the connection and capture specification.
ErrorResponse ==
  [NoResponse EXCEPT !.error = "speech unintelligible",
                     !.transcript = "book an appointment"]
ReplyResponse ==
  [NoResponse EXCEPT !.transcript = "book an appointment",
                     !.ai_response = Some([text |-> "Sure, with which doctor?",
                                           intent |-> "book_appointment",
                                           extracted_info |-> Some(E0)])]
SmallFrames == {Malformed, Frame(ErrorResponse), Frame(ReplyResponse)}

(***************************************************************************)
(* The auth store (authStore.ts 56-218): state, and the synchronous part   *)
(* of each action.  null is a sentinel no token or user equals.            *)
(***************************************************************************)
Null == "null"

InitialAuth ==
  [user |-> Null, accessToken |-> Null, refreshToken |-> Null,
   isAuthenticated |-> FALSE, isLoading |-> FALSE, error |-> Null]

\* What the server answers to login, to refresh and to GET /api/auth/me.
LoginResponse ==
  [user |-> "alice", access_token |-> "access-1", refresh_token |-> "refresh-1"]
RefreshResponse == [access_token |-> "access-2"]
MeResponse == "alice"

\* logout (authStore.ts 113-121)
logout(a) ==
  [a EXCEPT !.user = Null, !.accessToken = Null, !.refreshToken = Null,
            !.isAuthenticated = FALSE, !.error = Null]

\* login: before the request (69), after its response (75-82), in catch (84-87)
loginStarted(a) == [a EXCEPT !.isLoading = TRUE, !.error = Null]

loginSucceeded(a, response) ==
  [a EXCEPT !.user = response.user,
            !.accessToken = response.access_token,
            !.refreshToken = response.refresh_token,
            !.isAuthenticated = TRUE,
            !.isLoading = FALSE,
            !.error = Null]

loginFailed(a) == [a EXCEPT !.error = "Login failed", !.isLoading = FALSE]

\* refreshTokens after the response (authStore.ts 135-138)
tokensRefreshed(a, response) ==
  [a EXCEPT !.accessToken = response.access_token, !.error = Null]

\* checkAuth after the response (authStore.ts 205-209)
authChecked(a, response) ==
  [a EXCEPT !.user = response, !.isAuthenticated = TRUE, !.error = Null]

(***************************************************************************)
(* The voice store: state and setters (authStore.ts 315-390).              *)
(***************************************************************************)
InitialStore ==
  [isRecording |-> FALSE,
   isProcessing |-> FALSE,
   isPlaying |-> FALSE,
   messages |-> <<>>,
   currentTranscript |-> "",
   connectionStatus |-> "disconnected",
   currentIntent |-> Undefined,
   extractedEntities |-> None,
   suggestions |-> None,
   urgencyLevel |-> Undefined,
   error |-> Undefined]

setRecording(st, b) == [st EXCEPT !.isRecording = b]
setProcessing(st, b) == [st EXCEPT !.isProcessing = b]
setPlaying(st, b) == [st EXCEPT !.isPlaying = b]
setConnectionStatus(st, status) == [st EXCEPT !.connectionStatus = status]
setError(st, e) == [st EXCEPT !.error = e]
updateCurrentIntent(st, intent) == [st EXCEPT !.currentIntent = intent]
updateExtractedEntities(st, entities) == [st EXCEPT !.extractedEntities = Some(entities)]

\* A Turn id is `msg_${Date.now()}_${Math.random()}`: a value no Turn of the
\* log carries yet.  Turns are never removed one by one, so the number after
\* the length of the log is such a value.
FreshId(messages) == Len(messages) + 1

\* addMessage: append the message with a fresh id.
addMessage(st, message) ==
  [st EXCEPT !.messages =
     Append(st.messages,
            [id |-> FreshId(st.messages),
             type |-> message.type,
             content |-> message.content,
             timestamp |-> message.timestamp,
             isAudio |-> message.isAudio,
             intent |-> message.intent,
             entities |-> message.entities])]

updateSuggestions(st, suggestions) == [st EXCEPT !.suggestions = Some(suggestions)]

\* updateLastMessage (authStore.ts 350-359): the fields of updates are
\* spread over the last Turn, whichever they are.
updateLastMessage(st, updates) ==
  IF st.messages = <<>>
    THEN st
    ELSE [st EXCEPT !.messages[Len(st.messages)] =
            [f \in DOMAIN @ |-> IF f \in DOMAIN updates THEN updates[f] ELSE @[f]]]

\* reset (authStore.ts 379-390)
reset(st) ==
  [st EXCEPT !.messages = <<>>,
             !.currentTranscript = "",
             !.currentIntent = Undefined,
             !.extractedEntities = None,
             !.suggestions = None,
             !.urgencyLevel = Undefined,
             !.error = Undefined,
             !.isRecording = FALSE,
             !.isProcessing = FALSE,
             !.isPlaying = FALSE]

\* reset in the place of clearMessages.
clearMessagesResets(st) == reset(st)

clearMessages(st) ==
  [st EXCEPT !.messages = <<>>,
             !.currentTranscript = "",
             !.currentIntent = Undefined,
             !.extractedEntities = None,
             !.suggestions = None]

(***************************************************************************)
(* processVoiceResponse (authStore.ts 392-492): the store part.  The       *)
(* content of a Turn is the sequence of the pieces of its text, so that    *)
(* the template `I'm sorry, there was an error: ${response.error}` keeps   *)
(* the error text as its second piece.                                     *)
(***************************************************************************)
ErrorTurn(response) ==
  [type |-> "assistant",
   content |-> <<"I'm sorry, there was an error: ", response.error>>,
   timestamp |-> Now,
   isAudio |-> None,
   intent |-> Undefined,
   entities |-> None]

UserTurn(response) ==
  [type |-> "user",
   content |-> <<response.transcript>>,
   timestamp |-> response.timestamp,
   isAudio |-> Some(TRUE),
   intent |-> Undefined,
   entities |-> None]

AiTurn(response) ==
  [type |-> "assistant",
   content |-> <<Val(response.ai_response).text>>,
   timestamp |-> response.timestamp,
   isAudio |-> Some(Truthy(response.audio_response)),
   intent |-> Val(response.ai_response).intent,
   entities |-> Val(response.ai_response).extracted_info]

\* response.ai_response?.text is truthy
HasAiText(response) ==
  IsSome(response.ai_response) /\ Truthy(Val(response.ai_response).text)

\* lines 418-426
AddTranscript(st, response) ==
  IF Truthy(response.transcript) THEN addMessage(st, UserTurn(response)) ELSE st

\* lines 441-448
UpdateIntentEntities(st, ai) ==
  LET s1 == IF Truthy(ai.intent) THEN updateCurrentIntent(st, ai.intent) ELSE st
  IN IF IsSome(ai.extracted_info)
       THEN updateExtractedEntities(s1, Val(ai.extracted_info))
       ELSE s1

\* lines 428-449
AddAiResponse(st, response) ==
  IF HasAiText(response)
    THEN UpdateIntentEntities(addMessage(st, AiTurn(response)), Val(response.ai_response))
    ELSE st

\* lines 451-485: playAudio() runs up to its first await, so setPlaying(true)
\* happens inside processVoiceResponse.
StorePlaysAudio(response) ==
  ~Truthy(response.error) /\ Truthy(response.audio_response)

\* processVoiceResponse without the `return` of the error branch.
processVoiceResponseFallsThrough(st, response) ==
  LET s1 == setProcessing(st, FALSE)
      s2 == IF Truthy(response.error)
              THEN addMessage(setError(s1, response.error), ErrorTurn(response))
              ELSE setError(s1, Undefined)
      s3 == AddTranscript(s2, response)
      s4 == AddAiResponse(s3, response)
  IN IF Truthy(response.audio_response) THEN setPlaying(s4, TRUE) ELSE s4

processVoiceResponse(st, response) ==
  LET s1 == setProcessing(st, FALSE)
  IN IF Truthy(response.error)
       THEN addMessage(setError(s1, response.error), ErrorTurn(response))
       ELSE LET s2 == setError(s1, Undefined)
                s3 == AddTranscript(s2, response)
                s4 == AddAiResponse(s3, response)
            IN IF StorePlaysAudio(response) THEN setPlaying(s4, TRUE) ELSE s4

(***************************************************************************)
(* State.                                                                  *)
(*   store            the voice store                                      *)
(*   mounts, mounted  hook instances created so far; whether the last one  *)
(*                    is mounted.  Each instance has its own refs; the     *)
(*                    callbacks it registered keep using them after the    *)
(*                    instance is unmounted.                               *)
(*   websocketRef, mediaRecorderRef, audioChunksRef, audioContextRef       *)
(*                    the refs of each instance (0 is null)                *)
(*   sockets          every WebSocket created, in creation order           *)
(*   timers           pending setTimeout callbacks of resetConnection,     *)
(*                    per instance                                         *)
(*   acquiring        pending getUserMedia promises, per instance          *)
(*   recorders        every microphone stream acquired, with its recorder  *)
(*                    and the number of chunks the recorder has delivered  *)
(*   uploads          sendAudioToServer calls waiting for arrayBuffer()  *)
(*   outbox           the messages sent, with the socket they were sent on *)
(*   audios           playbacks in progress                                *)
(*   last             history: the handler that ran last                   *)
(*   toggles          history: toggleRecording() calls in direct          *)
(*                    succession (see Called)                              *)
(*   auth             the auth store                                       *)
(*   requests         the requests of the auth store that the server has   *)
(*                    not answered yet                                     *)
(*   trail            history: connection status values since the last     *)
(*                    resetConnection() made while the status was error    *)
(***************************************************************************)
VARIABLES store, mounts, mounted, websocketRef, mediaRecorderRef,
          audioChunksRef, audioContextRef, sockets, timers, acquiring,
          recorders, uploads, outbox, audios, last, toggles, trail,
          auth, requests

hookVars == <<mounts, mounted, websocketRef, mediaRecorderRef, audioChunksRef,
              audioContextRef>>
connVars == <<sockets, timers>>
captureVars == <<acquiring, recorders, uploads, outbox>>
histVars == <<last, toggles, trail>>
voiceVars == <<store, hookVars, connVars, captureVars, audios, histVars>>
authVars == <<auth, requests>>
vars == <<voiceVars, authVars>>

Instances == 1..MaxMounts

\* History records: the handler that ran, the kind of frame it handled and
\* the processing flag it found.
KindOf(frame) ==
  IF ~frame.json THEN "malformed"
  ELSE IF Truthy(frame.body.error) THEN "error" ELSE "response"

Did(op, kind) ==
  [op |-> op, kind |-> kind, proc |-> store.isProcessing, err |-> Undefined]

\* The frame handled, with the error text it carried.
Heard(frame) ==
  [Did("message", KindOf(frame)) EXCEPT
     !.err = IF KindOf(frame) = "error" THEN frame.body.error ELSE Undefined]

\* The status values seen since resetConnection() was called in status error.
Track(status) ==
  IF trail = <<>> \/ trail[Len(trail)] = status \/ Len(trail) >= 4
    THEN trail
    ELSE Append(trail, status)

Init ==
  /\ store = InitialStore
  /\ mounts = 0
  /\ mounted = FALSE
  /\ websocketRef = [i \in Instances |-> 0]
  /\ mediaRecorderRef = [i \in Instances |-> 0]
  /\ audioChunksRef = [i \in Instances |-> <<>>]
  /\ audioContextRef = [i \in Instances |-> FALSE]
  /\ sockets = <<>>
  /\ timers = [i \in Instances |-> 0]
  /\ acquiring = [i \in Instances |-> 0]
  /\ recorders = <<>>
  /\ uploads = <<>>
  /\ outbox = <<>>
  /\ audios = <<>>
  /\ last = [op |-> "init", kind |-> "-", proc |-> FALSE, err |-> Undefined]
  /\ toggles = 0
  /\ trail = <<>>
  /\ auth = InitialAuth
  /\ requests = <<>>

(***************************************************************************)
(* WebSocket objects.  rs is readyState; ev is the event the browser has   *)
(* queued for the socket: close() on an OPEN socket ends with a close      *)
(* event, close() on a CONNECTING socket fails the connection (an error    *)
(* event, then a close event), and an error event is always followed by a  *)
(* close event.                                                            *)
(***************************************************************************)
NewSocket(i) == [rs |-> "CONNECTING", ev |-> "none", inst |-> i]

\* WebSocket.close()
Closed(sock) ==
  IF sock.rs = "CONNECTING" THEN [sock EXCEPT !.rs = "CLOSING", !.ev = "error"]
  ELSE IF sock.rs = "OPEN" THEN [sock EXCEPT !.rs = "CLOSING", !.ev = "close"]
  ELSE sock

\* A socket whose handlers can still run.
Live(sock) == sock.rs # "CLOSED" \/ sock.ev # "none"
LiveSockets == {s \in 1..Len(sockets) : Live(sockets[s])}

PendingTimers == {i \in Instances : timers[i] > 0}
TotalTimers == IF PendingTimers = {} THEN 0
               ELSE IF Cardinality(PendingTimers) = 1
                      THEN timers[CHOOSE i \in PendingTimers : TRUE]
                      ELSE MaxResets

(***************************************************************************)
(* A failed connection fires its error event and its close event from one  *)
(* task: between the two handlers (part_005 68-72 and 74-78) no timer, no  *)
(* other event and no promise callback runs; only code called from the     *)
(* handlers' synchronous reactions (the operations of the hook) can.       *)
(***************************************************************************)
Dispatching ==
  \E s \in 1..Len(sockets) : sockets[s].rs = "CLOSED" /\ sockets[s].ev = "close"

(***************************************************************************)
(* connect (part_005 38-81).  The guard reads readyState of the held       *)
(* socket; the connection status of the store is not consulted.            *)
(***************************************************************************)
connectNoGuard(i) ==
  /\ Len(sockets) < MaxSockets
  /\ store' = setConnectionStatus(store, "connecting")
  /\ sockets' = Append(sockets, NewSocket(i))
  /\ websocketRef' = [websocketRef EXCEPT ![i] = Len(sockets) + 1]

connect(i) ==
  IF websocketRef[i] # 0 /\ sockets[websocketRef[i]].rs = "OPEN"
    THEN UNCHANGED <<store, sockets, websocketRef>>
    ELSE /\ Len(sockets) < MaxSockets
         /\ store' = setConnectionStatus(store, "connecting")
         /\ sockets' = Append(sockets, NewSocket(i))
         /\ websocketRef' = [websocketRef EXCEPT ![i] = Len(sockets) + 1]

\* The caller invokes connect() of the mounted hook.
Connect ==
  /\ mounted
  /\ connect(mounts)
  /\ last' = Did("connect", "-")
  /\ trail' = <<>>
  /\ UNCHANGED authVars
  /\ UNCHANGED <<mounts, mounted, mediaRecorderRef, audioChunksRef, audioContextRef,
                 timers, captureVars, audios, toggles>>

\* useEffect (part_005 203-207): a new hook instance is mounted.
Mount(autoConnect) ==
  /\ ~mounted
  /\ mounts < MaxMounts
  /\ mounts' = mounts + 1
  /\ mounted' = TRUE
  /\ IF autoConnect
       THEN connect(mounts + 1)
       ELSE UNCHANGED <<store, sockets, websocketRef>>
  /\ last' = Did(IF autoConnect THEN "autoconnect" ELSE "mount", "-")
  /\ trail' = <<>>
  /\ UNCHANGED authVars
  /\ UNCHANGED <<mediaRecorderRef, audioChunksRef, audioContextRef,
                 timers, captureVars, audios, toggles>>

\* useEffect cleanup (part_005 208-212)
Unmount ==
  /\ mounted
  /\ mounted' = FALSE
  /\ IF websocketRef[mounts] # 0
       THEN sockets' = [sockets EXCEPT ![websocketRef[mounts]] = Closed(@)]
       ELSE UNCHANGED sockets
  /\ last' = Did("unmount", "-")
  /\ trail' = <<>>
  /\ UNCHANGED authVars
  /\ UNCHANGED <<store, mounts, websocketRef, mediaRecorderRef, audioChunksRef,
                 audioContextRef, timers, captureVars, audios, toggles>>

\* resetConnection (part_005 191-200)
resetConnection(i) ==
  /\ IF websocketRef[i] # 0
       THEN /\ sockets' = [sockets EXCEPT ![websocketRef[i]] = Closed(@)]
            /\ websocketRef' = [websocketRef EXCEPT ![i] = 0]
       ELSE UNCHANGED <<sockets, websocketRef>>
  /\ store' = setError(store, Undefined)
  /\ timers' = [timers EXCEPT ![i] = @ + 1]

ResetConnection ==
  /\ mounted
  /\ TotalTimers < MaxResets
  /\ resetConnection(mounts)
  /\ last' = Did("reset", "-")
  /\ trail' = IF store.connectionStatus = "error" THEN <<"error">> ELSE <<>>
  /\ UNCHANGED authVars
  /\ UNCHANGED <<mounts, mounted, mediaRecorderRef, audioChunksRef, audioContextRef,
                 captureVars, audios, toggles>>

\* The setTimeout callback of resetConnection (part_005 197-199)
ReconnectTimer(i) ==
  /\ ~Dispatching
  /\ timers[i] > 0
  /\ timers' = [timers EXCEPT ![i] = @ - 1]
  /\ connect(i)
  /\ last' = Did("timer", "-")
  /\ trail' = Track(store'.connectionStatus)
  /\ UNCHANGED authVars
  /\ UNCHANGED <<mounts, mounted, mediaRecorderRef, audioChunksRef, audioContextRef,
                 captureVars, audios, toggles>>

(***************************************************************************)
(* Socket events (part_005 47-78).                                         *)
(***************************************************************************)
\* ws.onopen
SocketOpen(s) ==
  /\ ~Dispatching
  /\ sockets[s].rs = "CONNECTING" /\ sockets[s].ev = "none"
  /\ sockets' = [sockets EXCEPT ![s].rs = "OPEN"]
  /\ store' = setConnectionStatus(store, "connected")
  /\ last' = Did("open", "-")
  /\ trail' = Track("connected")
  /\ UNCHANGED authVars
  /\ UNCHANGED <<hookVars, timers, captureVars, audios, toggles>>

\* ws.onerror without its setProcessing(false).
\* A ws.onerror that reports the failure as the session error.
onerrorSetsError(st) ==
  setError(setProcessing(setConnectionStatus(st, "error"), FALSE), "connection error")

onerrorKeepsFlag(st) == setConnectionStatus(st, "error")

\* ws.onerror: the connection failed (or was closed before it opened).
onerror(st) == setProcessing(setConnectionStatus(st, "error"), FALSE)

SocketError(s) ==
  /\ ~Dispatching
  /\ \/ sockets[s].rs \in {"CONNECTING", "OPEN"} /\ sockets[s].ev = "none"
     \/ sockets[s].ev = "error"
  /\ sockets' = [sockets EXCEPT ![s].rs = "CLOSED", ![s].ev = "close"]
  /\ store' = onerror(store)
  /\ last' = Did("error", "-")
  /\ trail' = Track("error")
  /\ UNCHANGED authVars
  /\ UNCHANGED <<hookVars, timers, captureVars, audios, toggles>>

\* ws.onclose: after close(), after an error, or closed by the backend.
onclose(st) == setProcessing(setConnectionStatus(st, "disconnected"), FALSE)

SocketClose(s) ==
  /\ \/ sockets[s].rs = "CLOSED" /\ sockets[s].ev = "close"
     \/ ~Dispatching /\ sockets[s].ev = "close"
     \/ ~Dispatching /\ sockets[s].rs = "OPEN" /\ sockets[s].ev = "none"
  /\ sockets' = [sockets EXCEPT ![s].rs = "CLOSED", ![s].ev = "none"]
  /\ store' = onclose(store)
  /\ last' = Did("close", IF sockets[s].rs = "CLOSED" THEN "failed" ELSE "clean")
  /\ trail' = Track("disconnected")
  /\ UNCHANGED authVars
  /\ UNCHANGED <<hookVars, timers, captureVars, audios, toggles>>

(***************************************************************************)
(* ws.onmessage (part_005 52-66) with the playback it starts.              *)
(*                                                                         *)
(* A playback is [by, st]: by "store" is the Audio element that            *)
(* processVoiceResponse creates (authStore.ts 451-485), by "hook" is the   *)
(* buffer source of playAudioResponse (part_005 156-179).                  *)
(***************************************************************************)
Remove(seq, i) == SubSeq(seq, 1, i - 1) \o SubSeq(seq, i + 1, Len(seq))

\* JSON.parse accepts the frame
Decodes(frame) == frame.json

\* The store after the handler; the frame that does not decode goes to catch.
onmessageKeepsFlagInCatch(st, frame) ==
  IF Decodes(frame)
    THEN setProcessing(processVoiceResponse(st, frame.body), FALSE)
    ELSE st

\* ws.onmessage taking a frame that does not decode for a transport error.
onmessageDecodeFailureIsFatal(st, frame) ==
  IF Decodes(frame)
    THEN setProcessing(processVoiceResponse(st, frame.body), FALSE)
    ELSE setProcessing(setConnectionStatus(st, "error"), FALSE)

onmessage(st, frame) ==
  IF Decodes(frame)
    THEN setProcessing(processVoiceResponse(st, frame.body), FALSE)
    ELSE setProcessing(st, FALSE)

\* part_005 57-59: the hook plays audio_response whenever it is there.
HookPlaysAudio(frame) == Decodes(frame) /\ Truthy(frame.body.audio_response)

\* The playbacks one frame starts: the store's, then the hook's.
StartedPlaybacks(frame) ==
  (IF Decodes(frame) /\ StorePlaysAudio(frame.body)
     THEN <<[by |-> "store", st |-> "starting"]>> ELSE <<>>)
  \o (IF HookPlaysAudio(frame)
        THEN <<[by |-> "hook", st |-> "decoding"]>> ELSE <<>>)

SocketMessage(s, frame) ==
  /\ ~Dispatching
  /\ sockets[s].rs = "OPEN"
  /\ store' = onmessage(store, frame)
  /\ Len(store'.messages) <= MaxLog
  /\ audios' = audios \o StartedPlaybacks(frame)
  /\ Len(audios') <= MaxAudio
  /\ audioContextRef' =
       IF HookPlaysAudio(frame)
         THEN [audioContextRef EXCEPT ![sockets[s].inst] = TRUE]
         ELSE audioContextRef
  /\ last' = Heard(frame)
  /\ UNCHANGED authVars
  /\ UNCHANGED <<mounts, mounted, websocketRef, mediaRecorderRef, audioChunksRef,
                 connVars, captureVars, toggles, trail>>

\* await audio.play() resolves: onended is registered (authStore.ts 467-468)
PlayResolved(a) ==
  /\ ~Dispatching
  /\ audios[a] = [by |-> "store", st |-> "starting"]
  /\ audios' = [audios EXCEPT ![a].st = "playing"]
  /\ last' = Did("played", "-")
  /\ UNCHANGED authVars
  /\ UNCHANGED <<store, hookVars, connVars, captureVars, toggles, trail>>

\* audio.play() rejects (autoplay policy): authStore.ts 469-477
PlayRejected(a) ==
  /\ ~Dispatching
  /\ audios[a] = [by |-> "store", st |-> "starting"]
  /\ audios' = [audios EXCEPT ![a].st = "deferred"]
  /\ store' = setPlaying(store, FALSE)
  /\ last' = Did("blocked", "-")
  /\ UNCHANGED authVars
  /\ UNCHANGED <<hookVars, connVars, captureVars, toggles, trail>>

\* audio.onended (authStore.ts 468)
AudioEnded(a) ==
  /\ ~Dispatching
  /\ audios[a] = [by |-> "store", st |-> "playing"]
  /\ audios' = Remove(audios, a)
  /\ store' = setPlaying(store, FALSE)
  /\ last' = Did("ended", "-")
  /\ UNCHANGED authVars
  /\ UNCHANGED <<hookVars, connVars, captureVars, toggles, trail>>

\* The once-only click listener of a deferred playback (authStore.ts 474-476):
\* the audio is played with no onended handler.
DocumentClick ==
  /\ ~Dispatching
  /\ \E a \in 1..Len(audios) : audios[a].st = "deferred"
  /\ audios' = [a \in 1..Len(audios) |->
                  IF audios[a].st = "deferred"
                    THEN [audios[a] EXCEPT !.st = "replay"] ELSE audios[a]]
  /\ last' = Did("click", "-")
  /\ UNCHANGED authVars
  /\ UNCHANGED <<store, hookVars, connVars, captureVars, toggles, trail>>

\* A playback started from the click listener ends or fails.
ReplayOver(a) ==
  /\ ~Dispatching
  /\ audios[a] = [by |-> "store", st |-> "replay"]
  /\ audios' = Remove(audios, a)
  /\ last' = Did("replayed", "-")
  /\ UNCHANGED authVars
  /\ UNCHANGED <<store, hookVars, connVars, captureVars, toggles, trail>>

\* decodeAudioData resolves and source.start() runs (part_005 170-174)
DecodeResolved(a) ==
  /\ ~Dispatching
  /\ audios[a] = [by |-> "hook", st |-> "decoding"]
  /\ audios' = [audios EXCEPT ![a].st = "playing"]
  /\ last' = Did("decoded", "-")
  /\ UNCHANGED authVars
  /\ UNCHANGED <<store, hookVars, connVars, captureVars, toggles, trail>>

\* decodeAudioData rejects (part_005 176-178), or the buffer source ends.
HookPlaybackOver(a) ==
  /\ ~Dispatching
  /\ audios[a].by = "hook"
  /\ audios' = Remove(audios, a)
  /\ last' = Did("hookdone", "-")
  /\ UNCHANGED authVars
  /\ UNCHANGED <<store, hookVars, connVars, captureVars, toggles, trail>>

\* The caller stores the suggestions to show (authStore.ts 367).
Suggestions == <<"Book an appointment">>

UpdateSuggestions ==
  /\ ~Dispatching
  /\ store.suggestions = None
  /\ store' = updateSuggestions(store, Suggestions)
  /\ last' = Did("suggest", "-")
  /\ UNCHANGED authVars
  /\ UNCHANGED <<hookVars, connVars, captureVars, audios, toggles, trail>>

\* A component patches the last Turn (updateLastMessage takes a
\* Partial<VoiceMessage>): the audio flag, or the text.
Updates == {[isAudio |-> Some(TRUE)], [content |-> <<"(edited)">>]}

UpdateLastMessage(updates) ==
  /\ ~Dispatching
  /\ store' = updateLastMessage(store, updates)
  /\ last' = Did("patch", "-")
  /\ UNCHANGED authVars
  /\ UNCHANGED <<hookVars, connVars, captureVars, audios, toggles, trail>>

Reset ==
  /\ ~Dispatching
  /\ store' = reset(store)
  /\ last' = Did("resetstore", IF store.messages # <<>> THEN "turns" ELSE "-")
  /\ UNCHANGED authVars
  /\ UNCHANGED <<hookVars, connVars, captureVars, audios, toggles, trail>>

\* clearMessages, called by the UI (part_002 268)
ClearMessages ==
  /\ ~Dispatching
  /\ store' = clearMessages(store)
  /\ last' = Did("clear", IF store.messages # <<>> THEN "turns" ELSE "-")
  /\ UNCHANGED authVars
  /\ UNCHANGED <<hookVars, connVars, captureVars, audios, toggles, trail>>

(***************************************************************************)
(* Audio capture (part_005 84-153, 182-188).                               *)
(*                                                                         *)
(* A recorder entry is one acquired microphone stream: live says whether   *)
(* its tracks are live, state is the MediaRecorder's state ("none" when    *)
(* the MediaRecorder could not be created), stopEvt says whether its stop  *)
(* event is queued.  A chunk is named by the recorder that produced it.    *)
(***************************************************************************)
RECURSIVE SumOver(_, _)
SumOver(f, S) ==
  IF S = {} THEN 0
  ELSE LET x == CHOOSE y \in S : TRUE IN f[x] + SumOver(f, S \ {x})

TotalAcquiring == SumOver(acquiring, Instances)

\* The capture side is at rest: nothing being acquired, recorded or stopped.
CaptureIdle ==
  /\ TotalAcquiring = 0
  /\ \A r \in 1..Len(recorders) :
       recorders[r].state # "recording" /\ ~recorders[r].stopEvt

\* History: 1 after a toggleRecording() made at rest with the recording flag
\* false, 2 after the toggleRecording() that follows it directly, 0 after
\* any other capture call.
Called(op) ==
  IF op # "toggle" THEN 0
  ELSE IF toggles = 1 THEN 2
  ELSE IF ~store.isRecording /\ CaptureIdle THEN 1
  ELSE 0

\* startRecording up to `await getUserMedia` (part_005 84-93).  At most
\* MaxAcquire streams are granted: a request made beyond them waits alone and
\* can only be refused.
startRecording(i) ==
  /\ Len(recorders) + TotalAcquiring < MaxAcquire \/ TotalAcquiring = 0
  /\ acquiring' = [acquiring EXCEPT ![i] = @ + 1]
  /\ UNCHANGED <<store, recorders, mediaRecorderRef>>

\* stopRecording (part_005 124-130).  stop() on a recorder that is already
\* inactive throws InvalidStateError on some platforms and does nothing on
\* others: `throws` is the platform's choice.
stopRecording(i, throws) ==
  /\ IF mediaRecorderRef[i] # 0 /\ store.isRecording
       THEN IF recorders[mediaRecorderRef[i]].state = "recording"
              THEN /\ recorders' = [recorders EXCEPT
                                      ![mediaRecorderRef[i]].state = "inactive",
                                      ![mediaRecorderRef[i]].stopEvt = TRUE]
                   /\ store' = setProcessing(setRecording(store, FALSE), TRUE)
              ELSE /\ UNCHANGED recorders
                   /\ store' = IF throws THEN store
                               ELSE setProcessing(setRecording(store, FALSE), TRUE)
       ELSE UNCHANGED <<store, recorders>>
  /\ UNCHANGED <<acquiring, mediaRecorderRef>>

\* toggleRecording (part_005 182-188)
toggleRecording(i, throws) ==
  IF store.isRecording THEN stopRecording(i, throws) ELSE startRecording(i)

ToggleRecording(throws) ==
  /\ mounted
  /\ toggleRecording(mounts, throws)
  /\ toggles' = Called("toggle")
  /\ last' = Did("toggle", "-")
  /\ UNCHANGED authVars
  /\ UNCHANGED <<mounts, mounted, websocketRef, audioChunksRef, audioContextRef,
                 connVars, uploads, outbox, audios, trail>>

\* The record button of VoiceInterface (part_002 466-471): onClick is
\* toggleRecording, and the button is disabled unless the status is connected
\* (canRecord, 190-192, in a browser with audio support and the microphone
\* not denied) and the processing flag is false.
canRecord == store.connectionStatus = "connected"

RecordButton(throws) ==
  /\ canRecord /\ ~store.isProcessing
  /\ ToggleRecording(throws)

StartRecording ==
  /\ mounted
  /\ startRecording(mounts)
  /\ toggles' = Called("start")
  /\ last' = Did("start", "-")
  /\ UNCHANGED authVars
  /\ UNCHANGED <<mounts, mounted, websocketRef, audioChunksRef, audioContextRef,
                 connVars, uploads, outbox, audios, trail>>

StopRecording(throws) ==
  /\ mounted
  /\ stopRecording(mounts, throws)
  /\ toggles' = Called("stop")
  /\ last' = Did("stop", "-")
  /\ UNCHANGED authVars
  /\ UNCHANGED <<mounts, mounted, websocketRef, audioChunksRef, audioContextRef,
                 connVars, uploads, outbox, audios, trail>>

\* getUserMedia resolves: part_005 95-115.  recorderOk is whether
\* `new MediaRecorder(stream, {mimeType: 'audio/webm'})` succeeds; when it
\* throws, control goes to catch with the stream acquired.
GetUserMediaResolved(i, recorderOk) ==
  /\ ~Dispatching
  /\ acquiring[i] > 0
  /\ Len(recorders) < MaxAcquire
  /\ acquiring' = [acquiring EXCEPT ![i] = @ - 1]
  /\ audioChunksRef' = [audioChunksRef EXCEPT ![i] = <<>>]
  /\ IF recorderOk
       THEN /\ recorders' = Append(recorders, [inst |-> i, state |-> "recording",
                                               live |-> TRUE, stopEvt |-> FALSE,
                                               chunks |-> 0])
            /\ mediaRecorderRef' = [mediaRecorderRef EXCEPT ![i] = Len(recorders) + 1]
            /\ store' = setRecording(store, TRUE)
       ELSE /\ recorders' = Append(recorders, [inst |-> i, state |-> "none",
                                               live |-> TRUE, stopEvt |-> FALSE,
                                               chunks |-> 0])
            /\ UNCHANGED <<mediaRecorderRef, store>>
  /\ last' = Did("acquired", "-")
  /\ UNCHANGED authVars
  /\ UNCHANGED <<mounts, mounted, websocketRef, audioContextRef, connVars,
                 uploads, outbox, audios, toggles, trail>>

\* A startRecording that raises the recording flag before the stream is
\* granted and does not lower it in the catch.
GetUserMediaRejectedKeepsFlag(i) ==
  /\ ~Dispatching
  /\ acquiring[i] > 0
  /\ acquiring' = [acquiring EXCEPT ![i] = @ - 1]
  /\ store' = setRecording(store, TRUE)
  /\ last' = Did("refused", "-")
  /\ UNCHANGED authVars
  /\ UNCHANGED <<hookVars, connVars, recorders, uploads, outbox, audios,
                 toggles, trail>>

\* getUserMedia rejects: part_005 117-120
GetUserMediaRejected(i) ==
  /\ ~Dispatching
  /\ acquiring[i] > 0
  /\ acquiring' = [acquiring EXCEPT ![i] = @ - 1]
  /\ last' = Did("refused", "-")
  /\ UNCHANGED authVars
  /\ UNCHANGED <<store, hookVars, connVars, recorders, uploads, outbox, audios,
                 toggles, trail>>

\* The k-th chunk of audio that recorder r delivers.
Chunk(r, k) == [rec |-> r, seq |-> k]

\* mediaRecorder.ondataavailable with data (part_005 101-105); the last
\* chunk arrives between stop() and the stop event.
DataAvailable(r) ==
  /\ ~Dispatching
  /\ recorders[r].state = "recording" \/ recorders[r].stopEvt
  /\ Len(audioChunksRef[recorders[r].inst]) < MaxChunks
  /\ recorders[r].chunks < MaxChunks
  /\ audioChunksRef' = [audioChunksRef EXCEPT ![recorders[r].inst] =
                          Append(@, Chunk(r, recorders[r].chunks + 1))]
  /\ recorders' = [recorders EXCEPT ![r].chunks = @ + 1]
  /\ last' = Did("chunk", "-")
  /\ UNCHANGED authVars
  /\ UNCHANGED <<store, mounts, mounted, websocketRef, mediaRecorderRef,
                 audioContextRef, connVars, acquiring, uploads, outbox, audios,
                 toggles, trail>>

\* The recorder stops on its own: the tracks of its stream ended.
RecorderStops(r) ==
  /\ ~Dispatching
  /\ recorders[r].state = "recording"
  /\ recorders' = [recorders EXCEPT ![r].state = "inactive", ![r].stopEvt = TRUE,
                                    ![r].live = FALSE]
  /\ last' = Did("trackended", "-")
  /\ UNCHANGED authVars
  /\ UNCHANGED <<store, hookVars, connVars, acquiring, uploads, outbox, audios,
                 toggles, trail>>

\* sendAudioToServer up to `await audioBlob.arrayBuffer()` (part_005 133-141)
CanSend(i) == websocketRef[i] # 0 /\ sockets[websocketRef[i]].rs = "OPEN"

\* mediaRecorder.onstop (part_005 107-111)
RecorderOnStop(r) ==
  /\ ~Dispatching
  /\ recorders[r].stopEvt
  /\ recorders' = [recorders EXCEPT ![r].stopEvt = FALSE, ![r].live = FALSE]
  /\ IF CanSend(recorders[r].inst)
       THEN /\ uploads' = Append(uploads, [inst |-> recorders[r].inst, rec |-> r,
                                           blob |-> audioChunksRef[recorders[r].inst]])
            /\ UNCHANGED store
       ELSE /\ store' = setProcessing(store, FALSE)
            /\ UNCHANGED uploads
  /\ last' = Did("onstop", "-")
  /\ UNCHANGED authVars
  /\ UNCHANGED <<hookVars, connVars, acquiring, outbox, audios, toggles, trail>>

\* sendAudioToServer after the await (part_005 142-152).  encodes is whether
\* btoa(String.fromCharCode(...bytes)) succeeds (it throws RangeError on a
\* long recording, never on an empty one).  send() throws on a null ref and on a CONNECTING
\* socket, and discards the data on a CLOSING or CLOSED one.
SendAudio(encodes) ==
  /\ ~Dispatching
  /\ uploads # <<>>
  /\ encodes \/ Head(uploads).blob # <<>>
  /\ uploads' = Tail(uploads)
  /\ LET i == Head(uploads).inst
         ws == websocketRef[i]
     IN IF encodes /\ ws # 0 /\ sockets[ws].rs = "OPEN"
          THEN /\ outbox' = Append(outbox, [sock |-> ws, type |-> "audio",
                                            audio |-> Head(uploads).blob])
               /\ UNCHANGED store
          ELSE /\ UNCHANGED outbox
               /\ store' = IF encodes /\ ws # 0 /\ sockets[ws].rs \in {"CLOSING", "CLOSED"}
                             THEN store
                             ELSE setProcessing(store, FALSE)
  /\ last' = Did("send", "-")
  /\ UNCHANGED authVars
  /\ UNCHANGED <<hookVars, connVars, acquiring, recorders, audios, toggles, trail>>

(***************************************************************************)
(* The auth store's actions.  A request is answered in a later task, and   *)
(* requests are answered in any order; what follows an await in the same   *)
(* async function runs with the answer, before any other task.             *)
(***************************************************************************)
Requests == 1..Len(requests)

\* login (authStore.ts 67-73)
Login ==
  /\ Len(requests) < MaxCalls
  /\ auth' = loginStarted(auth)
  /\ requests' = Append(requests, [op |-> "login", by |-> "caller"])
  /\ UNCHANGED voiceVars

\* login after the await (authStore.ts 75-89)
LoginResponds(k, ok) ==
  /\ requests[k].op = "login"
  /\ auth' = IF ok THEN loginSucceeded(auth, LoginResponse) ELSE loginFailed(auth)
  /\ requests' = Remove(requests, k)
  /\ UNCHANGED voiceVars

\* logout (authStore.ts 113-121)
Logout ==
  /\ auth' = logout(auth)
  /\ UNCHANGED <<requests, voiceVars>>

\* refreshTokens (authStore.ts 123-133): with no refresh token it throws and
\* the catch logs out.
RefreshTokens ==
  /\ IF auth.refreshToken = Null
       THEN /\ auth' = logout(auth)
            /\ UNCHANGED requests
       ELSE /\ Len(requests) < MaxCalls
            /\ requests' = Append(requests, [op |-> "refresh", by |-> "caller"])
            /\ UNCHANGED auth
  /\ UNCHANGED voiceVars

\* refreshTokens after the await (authStore.ts 135-143).  Called by checkAuth
\* (212-213), success is followed by checkAuth() again, which sends its
\* request with the new token; failure by logout, twice.
RefreshResponds(k, ok) ==
  /\ requests[k].op = "refresh"
  /\ auth' = IF ok THEN tokensRefreshed(auth, RefreshResponse) ELSE logout(auth)
  /\ requests' = IF ok /\ requests[k].by = "checkAuth"
                   THEN [requests EXCEPT ![k] = [op |-> "me", by |-> "checkAuth"]]
                   ELSE Remove(requests, k)
  /\ UNCHANGED voiceVars

\* checkAuth (authStore.ts 193-203): nothing without an access token.
CheckAuth ==
  /\ auth.accessToken # Null
  /\ Len(requests) < MaxCalls
  /\ requests' = Append(requests, [op |-> "me", by |-> "caller"])
  /\ UNCHANGED <<auth, voiceVars>>

\* checkAuth after the await (authStore.ts 205-217): the answer is stored, or
\* the catch calls refreshTokens, which without a refresh token throws, logs
\* out and makes checkAuth log out.
MeResponds(k, ok) ==
  /\ requests[k].op = "me"
  /\ IF ok
       THEN /\ auth' = authChecked(auth, MeResponse)
            /\ requests' = Remove(requests, k)
       ELSE IF auth.refreshToken = Null
              THEN /\ auth' = logout(auth)
                   /\ requests' = Remove(requests, k)
              ELSE /\ requests' = [requests EXCEPT ![k] =
                                     [op |-> "refresh", by |-> "checkAuth"]]
                   /\ UNCHANGED auth
  /\ UNCHANGED voiceVars

(***************************************************************************)
(* Specifications.                                                         *)
(***************************************************************************)
Sockets == 1..Len(sockets)
Recorders == 1..Len(recorders)
Playbacks == 1..Len(audios)

ConnectionStep ==
  \/ \E autoConnect \in BOOLEAN : Mount(autoConnect)
  \/ Unmount
  \/ Connect
  \/ ResetConnection
  \/ \E i \in Instances : ReconnectTimer(i)
  \/ \E s \in Sockets : SocketOpen(s)
  \/ \E s \in Sockets : SocketError(s)
  \/ \E s \in Sockets : SocketClose(s)

CaptureStep ==
  \/ \E throws \in BOOLEAN : ToggleRecording(throws)
  \/ StartRecording
  \/ \E throws \in BOOLEAN : StopRecording(throws)
  \/ \E i \in Instances, recorderOk \in BOOLEAN : GetUserMediaResolved(i, recorderOk)
  \/ \E i \in Instances : GetUserMediaRejected(i)
  \/ \E r \in Recorders : DataAvailable(r)
  \/ \E r \in Recorders : RecorderStops(r)
  \/ \E r \in Recorders : RecorderOnStop(r)
  \/ \E encodes \in BOOLEAN : SendAudio(encodes)

PlaybackStep ==
  \/ \E a \in Playbacks : PlayResolved(a)
  \/ \E a \in Playbacks : PlayRejected(a)
  \/ \E a \in Playbacks : AudioEnded(a)
  \/ DocumentClick
  \/ \E a \in Playbacks : ReplayOver(a)
  \/ \E a \in Playbacks : DecodeResolved(a)
  \/ \E a \in Playbacks : HookPlaybackOver(a)

StoreStep ==
  \/ ClearMessages
  \/ Reset
  \/ UpdateSuggestions
  \/ \E updates \in Updates : UpdateLastMessage(updates)

AuthStep ==
  \/ Login
  \/ \E k \in Requests, ok \in BOOLEAN : LoginResponds(k, ok)
  \/ Logout
  \/ RefreshTokens
  \/ \E k \in Requests, ok \in BOOLEAN : RefreshResponds(k, ok)
  \/ CheckAuth
  \/ \E k \in Requests, ok \in BOOLEAN : MeResponds(k, ok)

\* The whole client, with the three frames of SmallFrames.
Next ==
  \/ ConnectionStep
  \/ CaptureStep
  \/ PlaybackStep
  \/ \E s \in Sockets, frame \in SmallFrames : SocketMessage(s, frame)
  \/ StoreStep
  \/ AuthStep

Spec == Init /\ [][Next]_vars

\* The connection manager alone: mounting, connect, resetConnection and the
\* socket events, with the three frames of SmallFrames.
NextConnection ==
  \/ ConnectionStep
  \/ \E s \in Sockets, frame \in SmallFrames : SocketMessage(s, frame)

SpecConnection == Init /\ [][NextConnection]_vars

\* One mounted hook with its socket: capture, upload and the responses.
NextCapture ==
  \/ Mount(TRUE)
  \/ \E s \in Sockets : SocketOpen(s)
  \/ \E s \in Sockets : SocketClose(s)
  \/ CaptureStep
  \/ \E s \in Sockets, frame \in SmallFrames : SocketMessage(s, frame)

SpecCapture == Init /\ [][NextCapture]_vars

\* One utterance after another on one socket: toggle to record, toggle to
\* stop, the upload, the frames that come back and the transport events
\* (what the utterance contains plays no part here).
NextUpload ==
  \/ Mount(TRUE)
  \/ \E s \in Sockets : SocketOpen(s)
  \/ \E s \in Sockets : SocketError(s)
  \/ \E s \in Sockets : SocketClose(s)
  \/ \E throws \in BOOLEAN : ToggleRecording(throws)
  \/ \E i \in Instances : GetUserMediaResolved(i, TRUE)
  \/ \E r \in Recorders : RecorderOnStop(r)
  \/ \E encodes \in BOOLEAN : SendAudio(encodes)
  \/ \E s \in Sockets, frame \in SmallFrames : SocketMessage(s, frame)

SpecUpload == Init /\ [][NextUpload]_vars

\* The conversation state machine: every frame of Frames on an open socket.
NextMessages ==
  \/ Mount(TRUE)
  \/ \E s \in Sockets : SocketOpen(s)
  \/ \E s \in Sockets, frame \in Frames : SocketMessage(s, frame)
  \/ ClearMessages

SpecMessages == Init /\ [][NextMessages]_vars

(***************************************************************************)
(* Claims.                                                                 *)
(***************************************************************************)
\* Some socket delivers this frame in the step.
Handles(frame) == \E s \in Sockets : SocketMessage(s, frame)

LastTurn == store.messages[Len(store.messages)]

\* C1: the processing flag is false right after any inbound frame has been
\* handled (a response, a response with error, a frame that does not
\* decode), whatever the flag was before.
C1_ProcessingFalseAfterFrame == last.op = "message" => ~store.isProcessing

\* A frame that does not decode arrived while the flag was set.
C1_Witness ==
  /\ last.op = "message" /\ last.kind = "malformed"
  /\ last.proc
  /\ ~store.isProcessing

\* C2: handling a message with an error text appends exactly one Turn, an
\* assistant Turn whose content contains the error text, sets the session
\* error to that text and leaves the processing flag false.  An error text
\* is a non-empty string: that is what `if (response.error)` tests.
C2_ErrorAppendsOneTurn ==
  [][(last'.op = "message" /\ last'.kind = "error") =>
       /\ Truthy(last'.err)
       /\ Len(store'.messages) = Len(store.messages) + 1
       /\ SubSeq(store'.messages, 1, Len(store.messages)) = store.messages
       /\ store'.messages[Len(store'.messages)].type = "assistant"
       /\ \E k \in DOMAIN store'.messages[Len(store'.messages)].content :
            store'.messages[Len(store'.messages)].content[k] = last'.err
       /\ store'.error = last'.err
       /\ ~store'.isProcessing]_vars

\* An error Turn has been appended to a log that held a Turn already.
C2_Witness ==
  /\ last.op = "message" /\ last.kind = "error"
  /\ store.error = "speech unintelligible"
  /\ Len(store.messages) = 2
  /\ LastTurn.type = "assistant"
  /\ LastTurn.content[2] = "speech unintelligible"
  /\ store.messages[1].type = "assistant"

\* C3: a non-error message that carries both transcript and ai_response
\* appends exactly two Turns: the user Turn with the transcript (audio
\* origin), then the assistant Turn with ai_response.text, the audio flag
\* of audio_response, the intent and the entities.
C3_TranscriptAndReplyAppendTwoTurns ==
  [][\A frame \in Frames :
       (/\ Handles(frame) /\ Decodes(frame)
        /\ ~Truthy(frame.body.error)
        /\ Truthy(frame.body.transcript)
        /\ IsSome(frame.body.ai_response)) =>
         /\ Len(store'.messages) = Len(store.messages) + 2
         /\ SubSeq(store'.messages, 1, Len(store.messages)) = store.messages
         /\ LET u == store'.messages[Len(store.messages) + 1]
                a == store'.messages[Len(store.messages) + 2]
            IN /\ u.type = "user"
               /\ u.content = <<frame.body.transcript>>
               /\ u.isAudio = Some(TRUE)
               /\ a.type = "assistant"
               /\ a.content = <<Val(frame.body.ai_response).text>>
               /\ a.isAudio = Some(Truthy(frame.body.audio_response))
               /\ a.intent = Val(frame.body.ai_response).intent
               /\ a.entities = Val(frame.body.ai_response).extracted_info]_vars

\* C4: after a non-error message with ai_response, the current intent is
\* ai_response.intent and the current entities are ai_response.extracted_info,
\* whatever they were before and whatever the ai_response (empty text,
\* empty intent, empty entity set).
C4_IntentAndEntitiesReplaced ==
  [][\A frame \in Frames :
       (/\ Handles(frame) /\ Decodes(frame)
        /\ ~Truthy(frame.body.error)
        /\ IsSome(frame.body.ai_response)
        /\ IsSome(Val(frame.body.ai_response).extracted_info)) =>
         /\ store'.currentIntent = Val(frame.body.ai_response).intent
         /\ store'.extractedEntities = Val(frame.body.ai_response).extracted_info]_vars

\* C5: when error is set, the other fields of the message have no effect:
\* no user Turn, no reply Turn, intent and entities unchanged, and no
\* playback started, by the store or by the socket message handler.
C5_ErrorIgnoresOtherFields ==
  [][\A frame \in Frames :
       (Handles(frame) /\ Decodes(frame) /\ Truthy(frame.body.error)) =>
         /\ \A k \in (Len(store.messages) + 1)..Len(store'.messages) :
              /\ store'.messages[k].type # "user"
              /\ IsSome(frame.body.ai_response) =>
                   store'.messages[k].content # <<Val(frame.body.ai_response).text>>
         /\ store'.currentIntent = store.currentIntent
         /\ store'.extractedEntities = store.extractedEntities
         /\ audios' = audios]_vars

\* No microphone callback is pending: no getUserMedia promise, no stop event.
CaptureCallbacksDone ==
  /\ TotalAcquiring = 0
  /\ \A r \in Recorders : ~recorders[r].stopEvt

\* Both acquisitions of a double toggle were granted and got their recorder.
BothStarted ==
  /\ Len(recorders) >= 2
  /\ \A r \in Recorders : recorders[r].state # "none"

\* C6: two toggleRecording() calls in direct succession, the first made with
\* the recording flag false, end with the recording flag false once the
\* pending microphone callbacks have run (stated for the case in which the
\* microphone is granted and the recorder is constructed each time).
C6_TwoTogglesEndNotRecording ==
  (toggles = 2 /\ CaptureCallbacksDone /\ BothStarted) => ~store.isRecording

\* The recordings in progress: a running recorder on a stream with live tracks.
ActiveRecordings ==
  {r \in Recorders : recorders[r].state = "recording" /\ recorders[r].live}

\* C7: at most one recording is active at any time: a start() issued while a
\* recording is active or still being started creates no second running
\* recorder on a second live stream.
C7_AtMostOneRecording == Cardinality(ActiveRecordings) <= 1

\* connect() of instance i runs in this step.
ConnectCalled(i) == (i = mounts /\ Connect) \/ ReconnectTimer(i)

\* C8: connect() while the status is connected and the held socket is open
\* creates no transport: the sockets, the held socket and the store are as
\* they were, so one live socket stays one and no response is handled twice.
C8_ConnectWhileConnectedIsNoOp ==
  [][\A i \in Instances :
       (/\ store.connectionStatus = "connected"
        /\ websocketRef[i] # 0
        /\ sockets[websocketRef[i]].rs = "OPEN"
        /\ ConnectCalled(i)) =>
         /\ sockets' = sockets
         /\ websocketRef' = websocketRef
         /\ store' = store
         /\ Cardinality(LiveSockets') = Cardinality(LiveSockets)]_vars

\* connect() has just returned with the one socket open and held.
C8_Witness ==
  /\ last.op = "connect"
  /\ store.connectionStatus = "connected"
  /\ mounted /\ websocketRef[mounts] # 0
  /\ sockets[websocketRef[mounts]].rs = "OPEN"
  /\ Cardinality(LiveSockets) = 1

\* C9: connect() while the status is connecting and the held socket has not
\* opened yet is a no-op: no socket is created, the held one is kept.
C9_ConnectWhileConnectingIsNoOp ==
  [][\A i \in Instances :
       (/\ store.connectionStatus = "connecting"
        /\ websocketRef[i] # 0
        /\ sockets[websocketRef[i]].rs = "CONNECTING"
        /\ ConnectCalled(i)) =>
         /\ sockets' = sockets
         /\ websocketRef' = websocketRef]_vars

\* C10: after resetConnection() in status error, the status goes error,
\* disconnected, connecting in that order with nothing in between; the call
\* closes the held socket, clears the session error and schedules one
\* connect().
StatusOrderAfterReset == <<"error", "disconnected", "connecting">>

C10_ResetFromError ==
  /\ trail # <<>> =>
       \A k \in 1..Len(trail) : k <= 3 => trail[k] = StatusOrderAfterReset[k]
  /\ last.op = "reset" =>
       /\ mounted => websocketRef[mounts] = 0
       /\ store.error = Undefined
       /\ TotalTimers >= 1

\* The step in which a finished utterance turns out not to be sendable: the
\* stop callback finds the connection not open, or the send fails after the
\* bytes of the recording have been read.
UtteranceNotSent ==
  \/ \E r \in Recorders :
       RecorderOnStop(r) /\ ~CanSend(recorders[r].inst)
  \/ (\E encodes \in BOOLEAN : SendAudio(encodes)) /\ outbox' = outbox

\* C11: an utterance that cannot be sent is reported: exactly one assistant
\* Turn is appended to the log in that step, and the processing flag is
\* cleared.
C11_SendFailureReported ==
  [][UtteranceNotSent =>
       /\ Len(store'.messages) = Len(store.messages) + 1
       /\ store'.messages[Len(store'.messages)].type = "assistant"
       /\ ~store'.isProcessing]_vars


TransportEvent(s) ==
  \/ SocketOpen(s)
  \/ SocketClose(s)
  \/ \E frame \in SmallFrames : SocketMessage(s, frame)

\* C13: after a transport failure the status is error and stays error until
\* resetConnection() is called: no later event of the socket that failed
\* (close, message, open) moves the status out of error.
C13_ErrorUntilReset ==
  [][\A s \in Sockets :
       (/\ store.connectionStatus = "error"
        /\ sockets[s].rs = "CLOSED"
        /\ TransportEvent(s)) =>
         store'.connectionStatus = "error"]_vars


(***************************************************************************)
(* Recovery.  The callbacks that are pending do run, and the caller goes   *)
(* on calling toggleRecording(); no inbound frame is promised.             *)
(***************************************************************************)
NextRecovery ==
  \/ Mount(TRUE)
  \/ \E s \in Sockets : SocketOpen(s)
  \/ \E s \in Sockets : SocketError(s)
  \/ \E s \in Sockets : SocketClose(s)
  \/ \E throws \in BOOLEAN : ToggleRecording(throws)
  \/ \E i \in Instances, recorderOk \in BOOLEAN : GetUserMediaResolved(i, recorderOk)
  \/ \E i \in Instances : GetUserMediaRejected(i)
  \/ \E r \in Recorders : RecorderStops(r)
  \/ \E r \in Recorders : RecorderOnStop(r)
  \/ \E encodes \in BOOLEAN : SendAudio(encodes)
  \/ \E s \in Sockets, frame \in SmallFrames : SocketMessage(s, frame)

\* getUserMedia settles one way or the other.
GetUserMediaSettles ==
  \/ \E i \in Instances, recorderOk \in BOOLEAN : GetUserMediaResolved(i, recorderOk)
  \/ \E i \in Instances : GetUserMediaRejected(i)

\* The event queued on socket s is delivered.
QueuedSocketEvent(s) ==
  /\ s \in Sockets
  /\ sockets[s].ev # "none"
  /\ SocketError(s) \/ SocketClose(s)

SpecRecovery ==
  /\ Init /\ [][NextRecovery]_vars
  /\ WF_vars(GetUserMediaSettles)
  /\ \A r \in 1..MaxAcquire : WF_vars(r \in Recorders /\ RecorderOnStop(r))
  /\ WF_vars(\E encodes \in BOOLEAN : SendAudio(encodes))
  /\ \A s \in 1..MaxSockets : WF_vars(QueuedSocketEvent(s))
  /\ WF_vars(\E throws \in BOOLEAN : ToggleRecording(throws))

\* An error has just been handled: the microphone was refused, the recorder
\* stopped on its own while the recording flag was true, the transport
\* failed or closed, a frame did not decode, or the backend sent an error.
ErrorHandled ==
  \/ last.op = "refused"
  \/ last.op = "trackended" /\ store.isRecording
  \/ last.op \in {"error", "close"}
  \/ last.op = "message" /\ last.kind \in {"malformed", "error"}

\* C14: after any error neither flag stays set for ever: the recording flag
\* becomes false and the processing flag becomes false.
C14_FlagsRecoverAfterError ==
  /\ ErrorHandled ~> ~store.isRecording
  /\ ErrorHandled ~> ~store.isProcessing


\* C15: every stream acquired by startRecording is released on every exit
\* path: when the recording flag is false and no microphone callback is
\* pending, no acquired stream has a live track.
C15_StreamsReleased ==
  (~store.isRecording /\ CaptureCallbacksDone) =>
    \A r \in Recorders : ~recorders[r].live


\* The voice interface: utterances recorded with the record button only.
NextButton ==
  \/ Mount(TRUE)
  \/ \E s \in Sockets : SocketOpen(s)
  \/ \E s \in Sockets : SocketClose(s)
  \/ \E throws \in BOOLEAN : RecordButton(throws)
  \/ \E i \in Instances : GetUserMediaResolved(i, TRUE)
  \/ \E r \in Recorders : RecorderOnStop(r)
  \/ \E encodes \in BOOLEAN : SendAudio(encodes)
  \/ \E s \in Sockets, frame \in SmallFrames : SocketMessage(s, frame)

SpecButton == Init /\ [][NextButton]_vars

\* Error replies: every frame that carries an error, whatever else it
\* carries, among the frames without ai_response and those of SmallFrames.
ErrorReplyFrames ==
  {frame \in Frames : KindOf(frame) = "error" \/ frame.body.ai_response = None}
    \cup SmallFrames

NextErrorReply ==
  \/ Mount(TRUE)
  \/ \E s \in Sockets : SocketOpen(s)
  \/ \E s \in Sockets, frame \in ErrorReplyFrames : SocketMessage(s, frame)
  \/ ClearMessages

SpecErrorReply == Init /\ [][NextErrorReply]_vars

\* The auth store: login, logout, refreshTokens and checkAuth, with their
\* requests outstanding.
NextAuth == AuthStep

SpecAuth == Init /\ [][NextAuth]_vars

\* Playback: the frames that carry audio, and what becomes of the playbacks
\* they start.
AudioFrames ==
  {Frame([NoResponse EXCEPT !.audio_response = "UklGRg=="]),
   Frame([ErrorResponse EXCEPT !.audio_response = "UklGRg=="]),
   Frame(NoResponse)}

NextPlayback ==
  \/ Mount(TRUE)
  \/ \E s \in Sockets : SocketOpen(s)
  \/ \E s \in Sockets, frame \in AudioFrames : SocketMessage(s, frame)
  \/ PlaybackStep

SpecPlayback == Init /\ [][NextPlayback]_vars

\* The session error: inbound frames, transport failures, utterances that
\* cannot be sent, and resetConnection up to the reconnect it schedules.
ErrorFrames ==
  {Malformed, Frame([NoResponse EXCEPT !.error = "speech unintelligible"]),
   Frame(NoResponse)}

NextError ==
  \/ Mount(TRUE)
  \/ ResetConnection
  \/ \E s \in Sockets : SocketOpen(s)
  \/ \E s \in Sockets : SocketError(s)
  \/ \E s \in Sockets : SocketClose(s)
  \/ \E s \in Sockets, frame \in ErrorFrames : SocketMessage(s, frame)
  \/ \E throws \in BOOLEAN : ToggleRecording(throws)
  \/ \E i \in Instances : GetUserMediaResolved(i, TRUE)
  \/ \E r \in Recorders : RecorderOnStop(r)
  \/ \E encodes \in BOOLEAN : SendAudio(encodes)

SpecError == Init /\ [][NextError]_vars

\* The Turn log: every store operation that writes it.
NextLog ==
  \/ Mount(TRUE)
  \/ \E s \in Sockets : SocketOpen(s)
  \/ \E s \in Sockets : SocketError(s)
  \/ \E s \in Sockets : SocketClose(s)
  \/ \E s \in Sockets, frame \in SmallFrames : SocketMessage(s, frame)
  \/ \E updates \in Updates : UpdateLastMessage(updates)
  \/ ClearMessages
  \/ Reset

SpecLog == Init /\ [][NextLog]_vars

\* The store under the component: the Turn log, the suggestions and the
\* flags, with clearMessages.
NextStore ==
  \/ Mount(TRUE)
  \/ \E s \in Sockets : SocketOpen(s)
  \/ \E s \in Sockets, frame \in SmallFrames : SocketMessage(s, frame)
  \/ \E throws \in BOOLEAN : ToggleRecording(throws)
  \/ \E i \in Instances : GetUserMediaResolved(i, TRUE)
  \/ UpdateSuggestions
  \/ ClearMessages

SpecStore == Init /\ [][NextStore]_vars

(***************************************************************************)
(* Teardown: the component that uses the hook is unmounted while capture,  *)
(* upload or a reconnect is under way.                                     *)
(***************************************************************************)
NextTeardown ==
  \/ Mount(TRUE)
  \/ Unmount
  \/ ResetConnection
  \/ \E i \in Instances : ReconnectTimer(i)
  \/ \E s \in Sockets : SocketOpen(s)
  \/ \E s \in Sockets : SocketError(s)
  \/ \E s \in Sockets : SocketClose(s)
  \/ \E throws \in BOOLEAN : ToggleRecording(throws)
  \/ \E i \in Instances : GetUserMediaResolved(i, TRUE)
  \/ \E r \in Recorders : RecorderOnStop(r)
  \/ \E encodes \in BOOLEAN : SendAudio(encodes)

SpecTeardown == Init /\ [][NextTeardown]_vars

\* C16: when the hook is torn down while a recording is in progress, the
\* recording is stopped and the connection is closed; unless a microphone
\* callback is still to run, no stream of the session has a live track.
C16_TeardownReleases ==
  last.op = "unmount" =>
    /\ \A r \in Recorders : recorders[r].state # "recording"
    /\ websocketRef[mounts] # 0 =>
         sockets[websocketRef[mounts]].rs \in {"CLOSING", "CLOSED"}
    /\ CaptureCallbacksDone => \A r \in Recorders : ~recorders[r].live


\* C17: a frame that does not decode changes nothing but the processing
\* flag, which is cleared: the status, the Turn log, the session error, the
\* intent, the entities, the held socket and the sockets are as they were.
C17_MalformedFrameOnlyClearsProcessing ==
  [][Handles(Malformed) =>
       /\ store' = [store EXCEPT !.isProcessing = FALSE]
       /\ websocketRef' = websocketRef
       /\ sockets' = sockets
       /\ audios' = audios]_vars

\* A frame that does not decode arrived while the flag was set, in a session
\* that had a Turn and an error to keep.
C17_Witness ==
  /\ last.op = "message" /\ last.kind = "malformed" /\ last.proc
  /\ ~store.isProcessing
  /\ store.messages # <<>>
  /\ store.error # Undefined
  /\ store.connectionStatus = "connected"


\* C18: clearMessages() leaves the Turn log empty and the intent, the
\* entities and the suggestions cleared; the connection status, the
\* recording and processing flags, the held socket and the sockets are as
\* they were.
C18_ClearMessagesKeepsConnection ==
  [][ClearMessages =>
       /\ store'.messages = <<>>
       /\ store'.currentIntent = Undefined
       /\ store'.extractedEntities = None
       /\ store'.suggestions = None
       /\ store'.connectionStatus = store.connectionStatus
       /\ store'.isRecording = store.isRecording
       /\ store'.isProcessing = store.isProcessing
       /\ websocketRef' = websocketRef
       /\ sockets' = sockets]_vars

\* A log with Turns has been cleared while the socket was open and the
\* processing flag set.
C18_Witness ==
  /\ last.op = "clear" /\ last.kind = "turns"
  /\ store.messages = <<>> /\ store.suggestions = None
  /\ store.connectionStatus = "connected"
  /\ store.isProcessing
  /\ mounted /\ websocketRef[mounts] # 0


\* C19: when startRecording fails because getUserMedia is refused (or there
\* is no capture device), the recording flag stays false, the processing
\* flag and the Turn log are unchanged, and the failed call registers no
\* recorder: the recorders and the hook's recorder reference are as before,
\* so a later stopRecording has no recorder of this call to stop.
C19_RefusedStartChangesNothing ==
  [][\A i \in Instances :
       GetUserMediaRejected(i) =>
         /\ ~store.isRecording => ~store'.isRecording
         /\ store'.isRecording = store.isRecording
         /\ store'.isProcessing = store.isProcessing
         /\ store'.messages = store.messages
         /\ recorders' = recorders
         /\ mediaRecorderRef' = mediaRecorderRef
         /\ \A r \in Recorders : recorders[r].state # "recording" =>
              recorders'[r].state # "recording"]_vars

\* A start has been refused while the processing flag was set and the
\* recorder of an earlier utterance was still referenced.
C19_Witness ==
  /\ last.op = "refused"
  /\ ~store.isRecording
  /\ store.isProcessing
  /\ mediaRecorderRef[mounts] # 0
  /\ acquiring[mounts] = 0


\* The chunks that recorder r has delivered since its start, in order.
Recorded(r) == [k \in 1..recorders[r].chunks |-> Chunk(r, k)]

\* C20: nothing is sent while a recording is in progress; the utterance of
\* a stopped recording, when it reaches send() with the connection open,
\* goes out as exactly one message of type audio whose payload is the
\* chunks of that recording since its start, in order, and nothing else.
C20_OneMessagePerUtterance ==
  [][/\ outbox' # outbox =>
          \A r \in Recorders : recorders[r].state # "recording"
     /\ (\E encodes \in BOOLEAN : SendAudio(encodes)) =>
          LET u == Head(uploads)
          IN  CanSend(u.inst) =>
                outbox' = Append(outbox, [sock |-> websocketRef[u.inst],
                                          type |-> "audio",
                                          audio |-> Recorded(u.rec)])]_vars


\* C21: toggleRecording() called while the recording flag is true stops the
\* capture (no recorder is left recording), sets the recording flag false
\* and the processing flag true and starts no capture; called while the
\* flag is false it starts a capture and leaves the processing flag alone.
C21_ToggleStopsOrStarts ==
  [][\A throws \in BOOLEAN :
       ToggleRecording(throws) =>
         IF store.isRecording
           THEN /\ ~store'.isRecording
                /\ store'.isProcessing
                /\ acquiring' = acquiring
                /\ Len(recorders') = Len(recorders)
                /\ \A r \in Recorders : recorders'[r].state # "recording"
           ELSE /\ acquiring'[mounts] = acquiring[mounts] + 1
                /\ store'.isProcessing = store.isProcessing
                /\ ~store'.isRecording]_vars


\* C22: with the record button as the only caller of toggleRecording(), the
\* recording flag and the processing flag are never both true: no recording
\* runs while an utterance is in flight.
C22_NeverRecordingWhileProcessing == ~(store.isRecording /\ store.isProcessing)


\* C23: the connection status changes only along the edges disconnected ->
\* connecting, connecting -> connected, connected -> disconnected, any
\* status -> error, and out of error only by the connect() that
\* resetConnection() scheduled; in particular never connecting ->
\* disconnected, error -> disconnected on a socket event, or connected ->
\* connecting.
C23_StatusEdges ==
  [][LET a == store.connectionStatus
         b == store'.connectionStatus
     IN  a # b =>
           \/ a = "disconnected" /\ b = "connecting"
           \/ a = "connecting" /\ b = "connected"
           \/ a = "connected" /\ b = "disconnected"
           \/ a # "error" /\ b = "error"
           \/ a = "error" /\ \E i \in Instances : ReconnectTimer(i)]_vars


\* The step clears the log: clearMessages() or reset().
ClearsLog == ClearMessages \/ Reset

\* C24: the Turn log is append-only between clears.  After a step that is
\* not clearMessages() or reset(), the earlier log is a prefix of the new
\* one: every earlier Turn keeps its id, role and content, the Turns before
\* the last are untouched, and no Turn is removed; clearMessages() and
\* reset() remove all the Turns at once.
C24_LogAppendOnly ==
  [][/\ ~ClearsLog =>
          /\ Len(store'.messages) >= Len(store.messages)
          /\ \A k \in 1..Len(store.messages) :
               /\ store'.messages[k].id = store.messages[k].id
               /\ store'.messages[k].type = store.messages[k].type
               /\ store'.messages[k].content = store.messages[k].content
               /\ k < Len(store.messages) => store'.messages[k] = store.messages[k]
     /\ ClearsLog => store'.messages = <<>>]_vars


\* C25: the session error is set exactly when the last well-formed frame
\* handled carried an error and resetConnection() has not been called
\* since.  It starts unset; a well-formed frame sets it to the error it
\* carries or clears it; resetConnection() clears it; every other step
\* (transport error or close, a frame that does not decode, an utterance
\* that cannot be sent) leaves it as it was.
C25_SessionErrorFollowsFrames ==
  /\ store.error = Undefined
  /\ [][/\ \A s \in Sockets, frame \in ErrorFrames :
            SocketMessage(s, frame) /\ Decodes(frame) =>
              store'.error = IF Truthy(frame.body.error) THEN frame.body.error
                             ELSE Undefined
        /\ ResetConnection => store'.error = Undefined
        /\ ~ResetConnection
             /\ ~(\E s \in Sockets, frame \in ErrorFrames :
                    SocketMessage(s, frame) /\ Decodes(frame))
             => store'.error = store.error]_vars

\* An error frame set the session error, and then a socket error, a frame
\* that does not decode, or an utterance that could not be sent left it set.
C25_Witness ==
  /\ store.error = "speech unintelligible"
  /\ \/ last.op \in {"error", "close"}
     \/ last.op = "message" /\ last.kind = "malformed"
     \/ last.op = "onstop" /\ ~store.isProcessing /\ last.proc


\* A playback that is sounding: play() has resolved, the click listener has
\* replayed it, or the hook's buffer source has started.
Sounding(a) == audios[a].st \in {"playing", "replay"}

\* C26: the playing flag is true while a playback started for an inbound
\* audio_response is running (a second one that overlaps the first and one
\* deferred to the next click included) and false when no playback is
\* running or about to start.
C26_PlayingFlagTracksPlayback ==
  /\ (\E a \in Playbacks : Sounding(a)) => store.isPlaying
  /\ (\A a \in Playbacks : audios[a].st = "deferred") => ~store.isPlaying


\* C28: handling one inbound frame starts at most one playback of its
\* audio_response: the store's handler and the hook's handler do not both
\* start one.
C28_OnePlaybackPerFrame ==
  [][\A s \in Sockets, frame \in AudioFrames :
       SocketMessage(s, frame) => Len(audios') <= Len(audios) + 1]_vars


\* The socket the mounted hook holds, the one send() uses (0 when none).
Held == IF mounted THEN websocketRef[mounts] ELSE 0

\* C27: the connection status agrees with the socket the hook holds.  While
\* the status is connected that socket is open; while that socket is open
\* (its open event handled, no close or error since) the status is
\* connected; and while the hook is mounted the open, error and close
\* events of any other socket leave the status as it was.
C27_StatusAgreesWithHeldSocket ==
  /\ [](mounted /\ store.connectionStatus = "connected" =>
          Held # 0 /\ sockets[Held].rs = "OPEN")
  /\ [](Held # 0 /\ sockets[Held].rs = "OPEN" =>
          store.connectionStatus = "connected")
  /\ [][\A s \in Sockets :
          mounted /\ s # Held /\ (SocketOpen(s) \/ SocketError(s) \/ SocketClose(s)) =>
             store'.connectionStatus = store.connectionStatus]_vars


\* C29: once the hook is torn down no socket of the session is open or
\* being opened, and none is opened later: the connect() that a
\* resetConnection() scheduled before the unmount opens no socket after it.
C29_NoTransportAfterTeardown ==
  (~mounted /\ mounts > 0) =>
     \A s \in Sockets : sockets[s].rs \notin {"CONNECTING", "OPEN"}


\* The auth store is logged out: no user, no tokens, not authenticated.
LoggedOut(a) ==
  /\ a.user = Null /\ a.accessToken = Null /\ a.refreshToken = Null
  /\ ~a.isAuthenticated

\* C30: in every state of the auth store isAuthenticated implies a non-null
\* access token; and a logged-out store (after logout(), or never logged
\* in) stays logged out until a login succeeds, whatever answers of
\* checkAuth() and refreshTokens() arrive in between.
C30_AuthenticatedHasToken ==
  /\ [](auth.isAuthenticated => auth.accessToken # Null)
  /\ [][LoggedOut(auth) /\ ~(\E k \in Requests : LoginResponds(k, TRUE))
          => LoggedOut(auth')]_vars

=============================================================================
